---- MODULE Spec2Model ----
(***************************************************************************)
(* Model of the reference-counted wake lock of src-tauri/src/wake_lock.rs. *)
(*                                                                         *)
(* WakeLockState keeps four fields, each behind its own Mutex: count,      *)
(* guard, user_enabled and data_dir.  Every step below is one critical     *)
(* section (or one blocking call) of the Rust code, so that the            *)
(* interleavings of concurrent command threads are the interleavings of    *)
(* the model.  The sequential specification Spec lets one call run at a    *)
(* time; SpecConc lets the calls of all threads interleave.                *)
(*                                                                         *)
(* count is a u32.  The model caps it at MaxCount, far below 2^32, so the  *)
(* overflow of `*count += 1` is outside the model.                         *)
(***************************************************************************)
EXTENDS Integers, FiniteSets, Sequences, TLC

\* Bounds of the model.
NumThreads == 2
MaxCount == 3

Threads == 1..NumThreads

\* No thread: the owner of an unlocked Mutex.
NoThread == 0

VARIABLES
  count,          \* WakeLockState.count
  guard,          \* WakeLockState.guard is Some(_)
  user_enabled,   \* WakeLockState.user_enabled
  data_dir,       \* WakeLockState.data_dir: "None" or "Some"
  owner,          \* which thread holds each Mutex
  poisoned,       \* the data_dir Mutex is poisoned (a holder panicked)
  file,           \* the text of <data_dir>/settings.json
  live,           \* number of keepawake::KeepAwake handles that exist
  pc,             \* per thread: position in the call it is executing
  op,             \* per thread: the public operation it is executing
  ret,            \* per thread: new_state / the value returned
  settings,       \* per thread: the local `settings` of save_keep_awake
  pre,            \* per thread: the manager as it was when the call began
  createErr,      \* per thread: create() returned Err in this call
  wrote,          \* per thread: outcome of std::fs::write in this call
  recording,      \* history is kept: TRUE when calls run one at a time
  createFailed,   \* history: some create() has returned Err
  balanced,       \* history: every release so far gave back a hold of its caller
  held,           \* history: per caller, acquire calls not yet released
  togRun,         \* history: consecutive completed user_toggle calls
  togBase,        \* history: count and user_enabled before that run
  writeFailed,    \* history: some std::fs::write has returned Err
  raKeep          \* history: the persisted preference as release_all left it

progVars == <<count, guard, user_enabled, data_dir>>
envVars  == <<poisoned, file, live>>
locVars  == <<settings, createErr, wrote>>
histVars == <<recording, createFailed, balanced, held, togRun, togBase,
              writeFailed, raKeep>>
vars == <<count, guard, user_enabled, data_dir, owner, poisoned, file, live,
          pc, op, ret, settings, pre, createErr, wrote,
          recording, createFailed, balanced, held, togRun, togBase,
          writeFailed, raKeep>>

----------------------------------------------------------------------------
(* The settings document.                                                  *)

\* A serde_json::Value, as far as the code looks into it: its kind, and for
\* an object the member keep_awake and one other member, other_key.
KeepVals  == {"absent", "true", "false", "number"}
OtherVals == {"absent", "1"}

ValNull  == [kind |-> "null",   keep |-> "absent", other |-> "absent"]
ValArray == [kind |-> "array",  keep |-> "absent", other |-> "absent"]
Obj(k, o) == [kind |-> "object", keep |-> k, other |-> o]

Values == {ValNull, ValArray} \cup {Obj(k, o) : k \in KeepVals, o \in OtherVals}

\* The file: missing, unreadable, text that is not JSON, or the text of a
\* value, laid out as to_string_pretty lays it out or in some other way.
NoText(kind) == [kind |-> kind, val |-> ValNull, fmt |-> "none"]
Text(v) == [kind |-> "json", val |-> v, fmt |-> "pretty"]
Compact(v) == [kind |-> "json", val |-> v, fmt |-> "compact"]
Files == {NoText("missing"), NoText("unreadable"), NoText("malformed")}
           \cup {Text(v) : v \in Values} \cup {Compact(v) : v \in Values}

\* The documents the concurrent runs start from.
ConcFiles == {NoText("missing"), Text(ValArray), Compact(Obj("true", "1"))}

BoolStr(b) == IF b THEN "true" ELSE "false"

\* std::fs::read_to_string(&path).ok().and_then(|s| from_str::<Value>(&s).ok())
ReadValue(f) ==
  IF f.kind = "json" THEN [some |-> TRUE, val |-> f.val]
                     ELSE [some |-> FALSE, val |-> ValNull]

\* v.get("keep_awake")?.as_bool(): Some(b) only for an object whose
\* keep_awake is a boolean.
load_keep_awake(f) ==
  LET r == ReadValue(f) IN
    r.some /\ r.val.kind = "object" /\ r.val.keep = "true"

\* A save that starts from an empty object whatever the document holds.
ReadSettingsFresh(f) == Obj("absent", "absent")

\* .unwrap_or_else(|| json!({}))
ReadSettings(f) ==
  LET r == ReadValue(f) IN IF r.some THEN r.val ELSE Obj("absent", "absent")

\* settings["keep_awake"] = ...: IndexMut<&str> of Value turns Null into an
\* empty object, inserts into an object, and panics on anything else.
CanIndex(v) == v.kind \in {"null", "object"}

SetKeepAwake(v, enabled) ==
  IF v.kind = "null" THEN Obj(BoolStr(enabled), "absent")
                     ELSE [v EXCEPT !.keep = BoolStr(enabled)]

\* serde_json::to_string_pretty(&settings)
ToStringPretty(v) == Text(v)

----------------------------------------------------------------------------
(* Arithmetic of the counter.                                              *)

\* A plain subtraction instead of the saturating one.
PlainSub(c) == c - 1

\* A decrement that is lost.
NoSub(c) == c

\* count.saturating_sub(1)
SatSub(c) == IF c = 0 THEN 0 ELSE c - 1

\* An increment that creates a handle on every call.
AlwaysCreate(c) == TRUE

\* `if *count == 0` of increment: the handle is created on the 0 -> 1 step.
NeedsCreate(c) == c = 0

\* The handle dropped one release early.
DropAtOne(c) == c <= 1

\* `if *count == 0` of decrement: the handle is dropped when the count is 0.
ShouldDrop(c) == c = 0

----------------------------------------------------------------------------
(* Bookkeeping.                                                            *)

Quiet(t) == pc[t] \in {"idle", "done", "panicked"}
AllQuiet == \A t \in Threads : Quiet(t)
OthersIdle(t) == \A u \in Threads \ {t} : pc[u] = "idle"
Pending == Cardinality({u \in Threads : ~Quiet(u)})

RECURSIVE SumHeld(_)
SumHeld(S) == IF S = {} THEN 0
              ELSE LET x == CHOOSE y \in S : TRUE IN held[x] + SumHeld(S \ {x})
TotalHeld == SumHeld(Threads)

\* Room for one more increment below the cap of the model.
CanGrow == count + Pending < MaxCount

Snapshot == [count |-> count, guard |-> guard, enabled |-> user_enabled,
             file |-> file]
NoPre == [count |-> 0, guard |-> FALSE, enabled |-> FALSE,
          file |-> NoText("missing")]
NoBase == [count |-> 0, enabled |-> FALSE]
NoHolds == [t \in Threads |-> 0]

InitCalled == data_dir = "Some" \/ \E u \in Threads : op[u] = "init"

Lock(m, t)   == owner' = [owner EXCEPT ![m] = t]
Unlock(m)    == owner' = [owner EXCEPT ![m] = NoThread]
Goto(t, l)   == pc' = [pc EXCEPT ![t] = l]

\* A call begins: the thread records the operation and the state it found.
Begin(t, o, l) ==
  /\ pc[t] = "idle"
  /\ Goto(t, l)
  /\ op' = [op EXCEPT ![t] = o]
  /\ pre' = IF recording THEN [pre EXCEPT ![t] = Snapshot] ELSE pre
  /\ raKeep' = IF ~recording THEN raKeep
                ELSE IF o = "release_all" THEN BoolStr(load_keep_awake(file))
                ELSE IF o = "init" THEN raKeep ELSE "none"
  /\ UNCHANGED <<recording, writeFailed>>

\* Any call but user_toggle ends a run of consecutive user_toggle calls.
EndRun == togRun' = 0 /\ togBase' = NoBase

----------------------------------------------------------------------------
InitManager ==
  /\ count = 0
  /\ guard = FALSE
  /\ user_enabled = FALSE
  /\ data_dir = "None"
  /\ owner = [m \in {"count", "guard", "user_enabled", "data_dir"} |-> NoThread]
  /\ poisoned = FALSE
  /\ live = 0
  /\ pc = [t \in Threads |-> "idle"]
  /\ op = [t \in Threads |-> "none"]
  /\ ret = [t \in Threads |-> "none"]
  /\ settings = [t \in Threads |-> ValNull]
  /\ pre = [t \in Threads |-> NoPre]
  /\ createErr = [t \in Threads |-> FALSE]
  /\ wrote = [t \in Threads |-> "none"]
  /\ createFailed = FALSE
  /\ held = NoHolds
  /\ togRun = 0
  /\ togBase = NoBase
  /\ writeFailed = FALSE
  /\ raKeep = "none"

\* One call at a time, any settings document, history kept.
Init ==
  /\ InitManager
  /\ file \in Files
  /\ recording = TRUE
  /\ balanced = TRUE

\* Concurrent calls: no history of single calls is kept.
InitConc ==
  /\ InitManager
  /\ file \in ConcFiles
  /\ recording = FALSE
  /\ balanced = FALSE

----------------------------------------------------------------------------
(* The calls.                                                              *)

\* acquire_wake_lock: state.increment(); Ok(())
acquire_wake_lock(t) ==
  /\ CanGrow
  /\ TotalHeld < MaxCount
  /\ Begin(t, "acquire", "inc_lock")
  /\ EndRun
  /\ UNCHANGED <<progVars, owner, envVars, ret, locVars,
                 createFailed, balanced, held>>

\* release_wake_lock: state.decrement(); Ok(()).  A caller with no hold of
\* its own that releases breaks the pairing of acquire and release.
release_wake_lock(t) ==
  /\ Begin(t, "release", "dec_lock")
  /\ EndRun
  /\ IF balanced /\ held[t] > 0
       THEN held' = [held EXCEPT ![t] = @ - 1] /\ UNCHANGED balanced
       ELSE held' = NoHolds /\ balanced' = FALSE
  /\ UNCHANGED <<progVars, owner, envVars, ret, locVars, createFailed>>

\* user_toggle is called.
user_toggle(t) ==
  /\ CanGrow
  /\ Begin(t, "user_toggle", "tog_lock")
  /\ IF togRun = 1 \/ ~recording
       THEN UNCHANGED <<togRun, togBase>>
       ELSE togRun' = 0 /\ togBase' = [count |-> count, enabled |-> user_enabled]
  /\ UNCHANGED <<progVars, owner, envVars, ret, locVars,
                 createFailed, balanced, held>>

\* init is called; it runs once.
init(t) ==
  /\ CanGrow
  /\ ~InitCalled
  /\ Begin(t, "init", "init_dir")
  /\ EndRun
  /\ UNCHANGED <<progVars, owner, envVars, ret, locVars,
                 createFailed, balanced, held>>

\* release_all is called: the holds of all callers are void.
release_all(t) ==
  /\ Begin(t, "release_all", "ra_count")
  /\ EndRun
  /\ held' = NoHolds
  /\ balanced' = FALSE
  /\ UNCHANGED <<progVars, owner, envVars, ret, locVars, createFailed>>

----------------------------------------------------------------------------
(* increment and decrement, and where they return to.                      *)

\* increment returns: to acquire_wake_lock (Ok(())), to init, or into
\* user_toggle, which still holds the user_enabled lock.
IncReturn(t) ==
  /\ Goto(t, IF op[t] = "user_toggle" THEN "tog_unlock" ELSE "done")
  /\ ret' = [ret EXCEPT ![t] = IF op[t] = "acquire" THEN "Ok"
                               ELSE IF op[t] = "init" THEN "unit" ELSE @]
  /\ held' = IF op[t] = "acquire" /\ balanced
               THEN [held EXCEPT ![t] = @ + 1] ELSE held

\* decrement returns: to release_wake_lock (Ok(())) or into user_toggle.
DecReturn(t) ==
  /\ Goto(t, IF op[t] = "user_toggle" THEN "tog_unlock" ELSE "done")
  /\ ret' = [ret EXCEPT ![t] = IF op[t] = "release" THEN "Ok" ELSE @]

\* let mut count = self.count.lock().unwrap(); if *count == 0 { ...
IncLock(t) ==
  /\ pc[t] = "inc_lock"
  /\ owner["count"] = NoThread
  /\ Lock("count", t)
  /\ Goto(t, IF NeedsCreate(count) THEN "inc_create" ELSE "inc_add")
  /\ UNCHANGED <<progVars, envVars, op, ret, pre, locVars, histVars>>

\* keepawake::Builder::default()...create(): Ok(guard), or Err(e) and the
\* early `return`, which drops the count lock with the count unchanged.
IncCreate(t) ==
  /\ pc[t] = "inc_create"
  /\ \E ok \in BOOLEAN :
       IF ok
         THEN /\ live' = live + 1
              /\ Goto(t, "inc_store")
              /\ UNCHANGED <<owner, ret, createErr, createFailed, held>>
         ELSE /\ createErr' = [createErr EXCEPT ![t] = TRUE]
              /\ createFailed' = TRUE
              /\ Unlock("count")
              /\ IncReturn(t)
              /\ UNCHANGED live
  /\ UNCHANGED <<progVars, poisoned, file, op, pre, settings, wrote,
                 recording, writeFailed, raKeep, balanced, togRun, togBase>>

\* *self.guard.lock().unwrap() = Some(guard): a handle stored before is dropped.
IncStore(t) ==
  /\ pc[t] = "inc_store"
  /\ owner["guard"] = NoThread
  /\ guard' = TRUE
  /\ live' = IF guard THEN live - 1 ELSE live
  /\ Goto(t, "inc_add")
  /\ UNCHANGED <<count, user_enabled, data_dir, owner, poisoned, file,
                 op, ret, pre, locVars, histVars>>

\* *count += 1; and the count lock is dropped at the end of increment.
IncAdd(t) ==
  /\ pc[t] = "inc_add"
  /\ count' = count + 1
  /\ Unlock("count")
  /\ IncReturn(t)
  /\ UNCHANGED <<guard, user_enabled, data_dir, envVars, op, pre, locVars,
                 createFailed, recording, writeFailed, raKeep, balanced, togRun, togBase>>

\* let mut count = self.count.lock().unwrap(); *count = count.saturating_sub(1);
DecLock(t) ==
  /\ pc[t] = "dec_lock"
  /\ owner["count"] = NoThread
  /\ Lock("count", t)
  /\ count' = SatSub(count)
  /\ Goto(t, "dec_check")
  /\ UNCHANGED <<guard, user_enabled, data_dir, envVars, op, ret, pre,
                 locVars, histVars>>

\* if *count == 0 { *self.guard.lock().unwrap() = None; } and the count lock
\* is dropped at the end of decrement.
DecFinish(t) ==
  /\ pc[t] = "dec_check"
  /\ owner["guard"] = NoThread
  /\ IF ShouldDrop(count)
       THEN guard' = FALSE /\ live' = IF guard THEN live - 1 ELSE live
       ELSE UNCHANGED <<guard, live>>
  /\ Unlock("count")
  /\ DecReturn(t)
  /\ UNCHANGED <<count, user_enabled, data_dir, poisoned, file, op, pre,
                 locVars, histVars>>

----------------------------------------------------------------------------
(* release_all: three statements, each its own critical section.           *)

\* *self.count.lock().unwrap() = 0;
RaCount(t) ==
  /\ pc[t] = "ra_count"
  /\ owner["count"] = NoThread
  /\ count' = 0
  /\ Goto(t, "ra_enabled")
  /\ UNCHANGED <<guard, user_enabled, data_dir, owner, envVars, op, ret, pre,
                 locVars, histVars>>

\* release_all that forgets the flag.
RaEnabledSkip(t) ==
  /\ pc[t] = "ra_enabled"
  /\ owner["user_enabled"] = NoThread
  /\ Goto(t, "ra_guard")
  /\ UNCHANGED <<progVars, owner, envVars, op, ret, pre, locVars, histVars>>

\* *self.user_enabled.lock().unwrap() = false;
RaEnabled(t) ==
  /\ pc[t] = "ra_enabled"
  /\ owner["user_enabled"] = NoThread
  /\ user_enabled' = FALSE
  /\ Goto(t, "ra_guard")
  /\ UNCHANGED <<count, guard, data_dir, owner, envVars, op, ret, pre,
                 locVars, histVars>>

\* release_all that also persists the flag it has reset.
RaGuardPersist(t) ==
  /\ pc[t] = "ra_guard"
  /\ owner["guard"] = NoThread
  /\ guard' = FALSE
  /\ live' = IF guard THEN live - 1 ELSE live
  /\ file' = ToStringPretty(SetKeepAwake(Obj("absent", "absent"), FALSE))
  /\ Goto(t, "done")
  /\ ret' = [ret EXCEPT ![t] = "unit"]
  /\ UNCHANGED <<count, user_enabled, data_dir, owner, poisoned, op, pre,
                 locVars, histVars>>

\* *self.guard.lock().unwrap() = None;
RaGuard(t) ==
  /\ pc[t] = "ra_guard"
  /\ owner["guard"] = NoThread
  /\ guard' = FALSE
  /\ live' = IF guard THEN live - 1 ELSE live
  /\ Goto(t, "done")
  /\ ret' = [ret EXCEPT ![t] = "unit"]
  /\ UNCHANGED <<count, user_enabled, data_dir, owner, poisoned, file, op, pre,
                 locVars, histVars>>

----------------------------------------------------------------------------
(* user_toggle and save_keep_awake.                                        *)

\* let mut enabled = self.user_enabled.lock().unwrap(); the flag is flipped
\* and decrement or increment is called with the lock held.
TogLock(t) ==
  /\ pc[t] = "tog_lock"
  /\ owner["user_enabled"] = NoThread
  /\ Lock("user_enabled", t)
  /\ user_enabled' = ~user_enabled
  /\ Goto(t, IF user_enabled THEN "dec_lock" ELSE "inc_lock")
  /\ UNCHANGED <<count, guard, data_dir, envVars, op, ret, pre, locVars,
                 histVars>>

\* user_toggle that keeps the user_enabled lock.
TogUnlockKeep(t) ==
  /\ pc[t] = "tog_unlock"
  /\ ret' = [ret EXCEPT ![t] = BoolStr(user_enabled)]
  /\ Goto(t, "tog_dir")
  /\ UNCHANGED <<progVars, owner, envVars, op, pre, locVars, histVars>>

\* let new_state = *enabled; drop(enabled);
TogUnlock(t) ==
  /\ pc[t] = "tog_unlock"
  /\ ret' = [ret EXCEPT ![t] = BoolStr(user_enabled)]
  /\ Unlock("user_enabled")
  /\ Goto(t, "tog_dir")
  /\ UNCHANGED <<progVars, envVars, op, pre, locVars, histVars>>

\* user_toggle returns new_state: one more call of a run of user_toggle calls.
TogReturn(t) ==
  /\ Goto(t, "done")
  /\ togRun' = IF recording THEN togRun + 1 ELSE togRun
  /\ UNCHANGED togBase

\* A panic unwinds the call; it never returns.
Panic(t) ==
  /\ Goto(t, "panicked")
  /\ togRun' = 0
  /\ togBase' = NoBase

\* if let Some(dir) = self.data_dir.lock().unwrap().as_ref(): unwrap panics
\* on a poisoned Mutex; with None, user_toggle returns at once.
TogDir(t) ==
  /\ pc[t] = "tog_dir"
  /\ owner["data_dir"] = NoThread
  /\ IF poisoned
       THEN Panic(t) /\ UNCHANGED owner
       ELSE IF data_dir = "None"
         THEN TogReturn(t) /\ UNCHANGED owner
         ELSE /\ Lock("data_dir", t)
              /\ Goto(t, "save_read")
              /\ UNCHANGED <<togRun, togBase>>
  /\ UNCHANGED <<progVars, envVars, op, ret, pre, locVars,
                 recording, writeFailed, raKeep, createFailed, balanced, held>>

\* save_keep_awake reads and parses the document and sets the key; the
\* panic of IndexMut unwinds through user_toggle and poisons data_dir.
SaveRead(t) ==
  /\ pc[t] = "save_read"
  /\ LET s == ReadSettings(file) IN
       IF CanIndex(s)
         THEN /\ settings' = [settings EXCEPT ![t] = SetKeepAwake(s, ret[t] = "true")]
              /\ Goto(t, "save_write")
              /\ UNCHANGED <<owner, poisoned, togRun, togBase>>
         ELSE /\ poisoned' = TRUE
              /\ Unlock("data_dir")
              /\ Panic(t)
              /\ UNCHANGED settings
  /\ UNCHANGED <<progVars, file, live, op, ret, pre, createErr, wrote,
                 recording, writeFailed, raKeep, createFailed, balanced, held>>

\* A save whose failed write takes the toggle back.
SaveWriteUndo(t) ==
  /\ pc[t] = "save_write"
  /\ \E ok \in BOOLEAN :
       /\ file' = IF ok THEN ToStringPretty(settings[t]) ELSE file
       /\ wrote' = [wrote EXCEPT ![t] = IF ok THEN "ok" ELSE "failed"]
       /\ writeFailed' = (writeFailed \/ ~ok)
       /\ user_enabled' = IF ok THEN user_enabled ELSE ~user_enabled
  /\ Unlock("data_dir")
  /\ settings' = [settings EXCEPT ![t] = ValNull]
  /\ TogReturn(t)
  /\ UNCHANGED <<count, guard, data_dir, poisoned, live, op, ret, pre,
                 createErr, recording, raKeep, createFailed, balanced, held>>

\* std::fs::write(&path, to_string_pretty(&settings)): an Err is logged only,
\* and the document stays as it was.
SaveWrite(t) ==
  /\ pc[t] = "save_write"
  /\ \E ok \in BOOLEAN :
       /\ file' = IF ok THEN ToStringPretty(settings[t]) ELSE file
       /\ wrote' = [wrote EXCEPT ![t] = IF ok THEN "ok" ELSE "failed"]
       /\ writeFailed' = (writeFailed \/ ~ok)
  /\ Unlock("data_dir")
  /\ settings' = [settings EXCEPT ![t] = ValNull]
  /\ TogReturn(t)
  /\ UNCHANGED <<progVars, poisoned, live, op, ret, pre, createErr,
                 recording, raKeep, createFailed, balanced, held>>

----------------------------------------------------------------------------
(* init.                                                                   *)

\* *self.data_dir.lock().unwrap() = Some(data_dir.to_path_buf());
InitDir(t) ==
  /\ pc[t] = "init_dir"
  /\ owner["data_dir"] = NoThread
  /\ IF poisoned
       THEN Panic(t) /\ UNCHANGED data_dir
       ELSE /\ data_dir' = "Some"
            /\ Goto(t, "init_load")
            /\ UNCHANGED <<togRun, togBase>>
  /\ UNCHANGED <<count, guard, user_enabled, owner, envVars, op, ret, pre,
                 locVars, recording, writeFailed, raKeep, createFailed, balanced, held>>

\* let saved = load_keep_awake(data_dir); if saved { ... }
InitLoad(t) ==
  /\ pc[t] = "init_load"
  /\ IF load_keep_awake(file)
       THEN Goto(t, "init_enable") /\ UNCHANGED ret
       ELSE Goto(t, "done") /\ ret' = [ret EXCEPT ![t] = "unit"]
  /\ UNCHANGED <<progVars, owner, envVars, op, pre, locVars, histVars>>

\* *self.user_enabled.lock().unwrap() = true; then self.increment().  A
\* flag that was already true gets a second unit of the count.
InitEnable(t) ==
  /\ pc[t] = "init_enable"
  /\ owner["user_enabled"] = NoThread
  /\ user_enabled' = TRUE
  /\ Goto(t, "inc_lock")
  /\ IF user_enabled
       THEN balanced' = FALSE /\ held' = NoHolds
       ELSE UNCHANGED <<balanced, held>>
  /\ UNCHANGED <<count, guard, data_dir, owner, envVars, op, ret, pre,
                 locVars, recording, writeFailed, raKeep, createFailed, togRun, togBase>>

----------------------------------------------------------------------------
\* The command thread is free for its next call.
Retire(t) ==
  /\ pc[t] \in {"done", "panicked"}
  /\ Goto(t, "idle")
  /\ op' = [op EXCEPT ![t] = "none"]
  /\ ret' = [ret EXCEPT ![t] = "none"]
  /\ pre' = [pre EXCEPT ![t] = NoPre]
  /\ settings' = [settings EXCEPT ![t] = ValNull]
  /\ createErr' = [createErr EXCEPT ![t] = FALSE]
  /\ wrote' = [wrote EXCEPT ![t] = "none"]
  /\ UNCHANGED <<progVars, owner, envVars, histVars>>

\* The process ends and starts again: a new WakeLockState::default(), the
\* handle gone with the old process, the settings document as it was left.
Restart ==
  /\ \A t \in Threads : pc[t] = "idle"
  /\ data_dir = "Some"
  /\ count' = 0
  /\ guard' = FALSE
  /\ user_enabled' = FALSE
  /\ data_dir' = "None"
  /\ poisoned' = FALSE
  /\ live' = 0
  /\ held' = NoHolds
  /\ balanced' = recording
  /\ togRun' = 0
  /\ togBase' = NoBase
  /\ UNCHANGED <<owner, file, pc, op, ret, pre, locVars, recording,
                 createFailed, writeFailed, raKeep>>

Call(t) ==
  \/ acquire_wake_lock(t)
  \/ release_wake_lock(t)
  \/ user_toggle(t)
  \/ init(t)
  \/ release_all(t)

Step(t) ==
  \/ IncLock(t) \/ IncCreate(t) \/ IncStore(t) \/ IncAdd(t)
  \/ DecLock(t) \/ DecFinish(t)
  \/ RaCount(t) \/ RaEnabled(t) \/ RaGuard(t)
  \/ TogLock(t) \/ TogUnlock(t) \/ TogDir(t) \/ SaveRead(t) \/ SaveWrite(t)
  \/ InitDir(t) \/ InitLoad(t) \/ InitEnable(t)
  \/ Retire(t)

\* One call at a time: a call begins only when no other thread is in one.
SerialCall(t) == OthersIdle(t) /\ Call(t)

Next == (\E t \in Threads : SerialCall(t) \/ Step(t)) \/ Restart

Spec == Init /\ [][Next]_vars

\* Concurrent command threads: calls begin at any time.
NextConc == (\E t \in Threads : Call(t) \/ Step(t)) \/ Restart

SpecConc == InitConc /\ [][NextConc]_vars

\* Fair scheduling: a thread whose next step is possible again and again
\* takes it; a thread waiting for a lock gets it if it is freed often enough.
InitFair == InitConc /\ file \in {Text(ValArray), Compact(Obj("true", "1"))}

SpecFair ==
  InitFair /\ [][NextConc]_vars /\ \A t \in Threads : SF_vars(Step(t))

\* init, and after it concurrent user_toggle calls only.
LocationSet == data_dir = "Some" /\ \A u \in Threads : op[u] # "init"

StepToggle(t) ==
  \/ IncLock(t) \/ IncCreate(t) \/ IncStore(t) \/ IncAdd(t)
  \/ DecLock(t) \/ DecFinish(t)
  \/ TogLock(t) \/ TogUnlock(t) \/ TogDir(t) \/ SaveRead(t) \/ SaveWrite(t)
  \/ InitDir(t) \/ InitLoad(t) \/ InitEnable(t)
  \/ Retire(t)

ToggleCall(t) == LocationSet /\ user_toggle(t)

NextToggle == \E t \in Threads : init(t) \/ ToggleCall(t) \/ StepToggle(t)

SpecToggle == InitConc /\ [][NextToggle]_vars

\* Concurrent command threads that never call release_all.
CallNoRa(t) ==
  \/ acquire_wake_lock(t)
  \/ release_wake_lock(t)
  \/ user_toggle(t)
  \/ init(t)

StepNoRa(t) ==
  \/ IncLock(t) \/ IncCreate(t) \/ IncStore(t) \/ IncAdd(t)
  \/ DecLock(t) \/ DecFinish(t)
  \/ TogLock(t) \/ TogUnlock(t) \/ TogDir(t) \/ SaveRead(t) \/ SaveWrite(t)
  \/ InitDir(t) \/ InitLoad(t) \/ InitEnable(t)
  \/ Retire(t)

NextNoRa == (\E t \in Threads : CallNoRa(t) \/ StepNoRa(t)) \/ Restart

SpecNoRa == InitConc /\ [][NextNoRa]_vars

TypeOK ==
  /\ count \in 0..MaxCount
  /\ guard \in BOOLEAN
  /\ user_enabled \in BOOLEAN
  /\ data_dir \in {"None", "Some"}
  /\ \A m \in DOMAIN owner : owner[m] \in Threads \cup {NoThread}
  /\ file \in Files
  /\ live \in 0..(NumThreads + 1)
  /\ \A t \in Threads : held[t] \in 0..MaxCount

----------------------------------------------------------------------------
(* Properties.                                                             *)

Returned(t, o) == pc[t] = "done" /\ op[t] = o
UserUnit == IF user_enabled THEN 1 ELSE 0
PreDefault(t) == pre[t].count = 0 /\ ~pre[t].guard /\ ~pre[t].enabled

\* C1: with calls run one at a time and no failed create(), after every
\* completed call the guard is present iff count > 0.
GuardIffCount ==
  (AllQuiet /\ ~createFailed) => (guard <=> count > 0)

GuardIffCountWitness ==
  \E t \in Threads :
    /\ Returned(t, "release") /\ ~createFailed
    /\ pre[t].count = 2 /\ count = 1 /\ guard /\ data_dir = "Some"

\* C2: concurrent acquire, release, user_toggle and release_all are
\* linearizable.  Every sequential order of calls with no failed create()
\* ends with the guard present iff count > 0 (C1), so a linearizable
\* manager is in such a state whenever all calls have returned.
QuiescentGuardIffCount ==
  (AllQuiet /\ ~createFailed /\ data_dir = "None") => (guard <=> count > 0)

\* C3: acquire at count 0 whose create() fails still counts the hold: the
\* count is 1, the guard is absent, and the call reports Ok.
FailedAcquireStillCounts ==
  \A t \in Threads :
    (Returned(t, "acquire") /\ pre[t].count = 0 /\ createErr[t])
      => (count = 1 /\ ~guard /\ ret[t] = "Ok")

\* C4: between calls, while every release gives back a hold of its caller
\* and release_all was not called, count is the number of outstanding
\* automatic holds plus one for an enabled user toggle, whether or not
\* create() fails.  (balanced also leaves out an init that runs after the
\* user toggle was already on.)
CountIsHoldsPlusUser ==
  (AllQuiet /\ balanced) => count = TotalHeld + UserUnit

\* C5 as stated: two consecutive user_toggle calls restore count and
\* user_enabled, from any reachable state; here already for the runs in
\* which no create() has failed.
ToggleTwiceRestores ==
  (togRun = 2 /\ ~createFailed)
    => (user_enabled = togBase.enabled /\ count = togBase.count)

\* C5 as amended: two consecutive user_toggle calls restore user_enabled;
\* they restore count when user_enabled was false before the first call, or
\* count was at least 2.
ToggleTwiceRestoresAmended ==
  togRun = 2 =>
    /\ user_enabled = togBase.enabled
    /\ (~togBase.enabled \/ togBase.count >= 2) => count = togBase.count

ToggleTwiceWitness ==
  /\ togRun = 2
  /\ togBase.enabled /\ togBase.count = 2
  /\ \E t \in Threads : Returned(t, "user_toggle") /\ wrote[t] = "ok"

\* C6: release_all run on its own ends in the pristine idle state: count
\* 0, no guard, user_enabled false.
ReleaseAllPristine ==
  \A t \in Threads :
    Returned(t, "release_all") => (count = 0 /\ ~guard /\ ~user_enabled)

ReleaseAllWitness ==
  \E t \in Threads :
    /\ Returned(t, "release_all")
    /\ pre[t].count >= 2 /\ pre[t].guard /\ pre[t].enabled

\* C7: init on a default manager: a persisted true gives user_enabled and
\* count >= 1 and writes nothing; otherwise the manager stays idle and only
\* the location is recorded.
InitRestores ==
  \A t \in Threads :
    (Returned(t, "init") /\ PreDefault(t)) =>
      /\ data_dir = "Some"
      /\ file = pre[t].file /\ wrote[t] = "none"
      /\ IF load_keep_awake(pre[t].file)
           THEN user_enabled /\ count >= 1
           ELSE count = 0 /\ ~guard /\ ~user_enabled

\* C8: with the location set and the write successful, user_toggle returns
\* the negated flag, which is then the persisted and the in-memory value;
\* from (0, false) it gives (1, true), from (1, true) it gives (0, false).
ToggleReturnsAndPersists ==
  \A t \in Threads :
    (Returned(t, "user_toggle") /\ wrote[t] = "ok") =>
      /\ ret[t] = BoolStr(~pre[t].enabled)
      /\ user_enabled = (ret[t] = "true")
      /\ load_keep_awake(file) = (ret[t] = "true")
      /\ (pre[t].count = 0 /\ ~pre[t].enabled) => count = 1
      /\ (pre[t].count = 1 /\ pre[t].enabled) => count = 0

\* C9: no call panics, whatever the settings document, create() and the
\* write do; acquire_wake_lock and release_wake_lock report Ok.
NoCallPanics ==
  \A t \in Threads :
    /\ pc[t] # "panicked"
    /\ (pc[t] = "done" /\ op[t] \in {"acquire", "release"}) => ret[t] = "Ok"

\* C10: count is never negative, and a release at count 0 leaves count 0
\* and the guard absent.
CountNeverNegative ==
  /\ count >= 0
  /\ \A t \in Threads :
       (Returned(t, "release") /\ pre[t].count = 0) => (count = 0 /\ ~guard)

ReleaseAtZeroWitness ==
  \E t \in Threads :
    Returned(t, "release") /\ pre[t].count = 0 /\ ~balanced /\ createFailed

\* C11: a successful save on a document that is a JSON object changes only
\* keep_awake: other_key is there afterwards with its value unchanged and
\* keep_awake is the saved flag; on a missing or malformed document the
\* result is exactly {keep_awake: enabled}.
SaveChangesOnlyKeepAwake ==
  \A t \in Threads :
    (Returned(t, "user_toggle") /\ wrote[t] = "ok") =>
      LET before == pre[t].file IN
        /\ file.kind = "json" /\ file.val.kind = "object"
        /\ file.val.keep = ret[t]
        /\ (before.kind = "json" /\ before.val.kind = "object")
             => file.val.other = before.val.other
        /\ before.kind \in {"missing", "unreadable", "malformed"}
             => file.val.other = "absent"

SaveWitness ==
  \E t \in Threads :
    /\ Returned(t, "user_toggle") /\ wrote[t] = "ok"
    /\ pre[t].file = Compact(Obj("absent", "1"))
    /\ file = Text(Obj("true", "1"))

\* C12: release_all neither reads nor writes the persisted preference: the
\* document is the same after it, and when keep_awake was persisted as true
\* before release_all, the next init of a fresh manager restores
\* user_enabled.
ReleaseAllKeepsPreference ==
  /\ \A t \in Threads :
       Returned(t, "release_all") => (file = pre[t].file /\ wrote[t] = "none")
  /\ \A t \in Threads :
       (Returned(t, "init") /\ PreDefault(t) /\ raKeep = "true") => user_enabled

ReleaseAllKeepsWitness ==
  \E t \in Threads :
    /\ Returned(t, "init") /\ PreDefault(t) /\ raKeep = "true"
    /\ user_enabled /\ count = 1 /\ guard
    /\ file = Text(Obj("true", "1"))

AtMostOneHandle ==
  /\ live <= 1
  /\ \A t \in Threads : pc[t] = "inc_store" => ~guard

\* C15: with concurrent acquire, release and user_toggle, no release_all
\* and no failed create(), count and guard change together: whenever no
\* thread holds the count lock the guard is present iff count > 0, a handle
\* is created only at count 0 with no handle held, and the handle is
\* dropped only in a step that leaves count 0.
CreatesAndDropsAtZero ==
  /\ live' > live => (count = 0 /\ ~guard)
  /\ (guard /\ ~guard') => count' = 0

CountGuardAtomic ==
  /\ []((owner["count"] = NoThread /\ ~createFailed) => (guard <=> count > 0))
  /\ [][CreatesAndDropsAtZero]_vars

CountGuardAtomicWitness ==
  \E t, u \in Threads :
    /\ pc[t] = "inc_lock" /\ op[t] = "user_toggle"
    /\ pc[u] = "dec_lock" /\ op[u] = "release"
    /\ owner["count"] = NoThread /\ ~createFailed
    /\ guard /\ count = 1

\* The mutex a thread locks in its next step, and the mutexes it holds.
Wants(t) ==
  CASE pc[t] \in {"inc_lock", "dec_lock", "ra_count"} -> "count"
    [] pc[t] \in {"inc_store", "dec_check", "ra_guard"} -> "guard"
    [] pc[t] \in {"tog_lock", "init_enable", "ra_enabled"} -> "user_enabled"
    [] pc[t] \in {"tog_dir", "init_dir"} -> "data_dir"
    [] OTHER -> "none"

Holds(t) == {m \in DOMAIN owner : owner[m] = t}

\* user_enabled is locked before count, count before guard; data_dir is
\* locked with no other lock held.
Rank(m) ==
  CASE m = "user_enabled" -> 1
    [] m = "count" -> 2
    [] m = "guard" -> 3
    [] m = "data_dir" -> 4

LockOrder ==
  \A t \in Threads :
    Wants(t) # "none" => \A m \in Holds(t) : Rank(m) < Rank(Wants(t))

\* C16: no deadlock: the mutexes are locked in one order, so there is no
\* cyclic wait, and under fair scheduling every call of acquire, release,
\* user_toggle, release_all and init comes to its end (it returns, or it
\* unwinds with the panic of C9, which frees its lock).
DeadlockFree ==
  /\ []LockOrder
  /\ \A t \in Threads : (~Quiet(t)) ~> Quiet(t)

DeadlockFreeWitness ==
  \E t, u \in Threads :
    /\ pc[t] = "inc_lock" /\ op[t] = "user_toggle" /\ owner["user_enabled"] = t
    /\ owner["count"] = u /\ pc[u] = "dec_check"

\* C17: with the location set and no failed write, once concurrent
\* user_toggle calls have all returned the persisted keep_awake is the
\* in-memory user_enabled.
PersistedIsFlag ==
  ( /\ \A t \in Threads : pc[t] \in {"idle", "done"}
    /\ data_dir = "Some" /\ ~poisoned /\ ~writeFailed )
    => load_keep_awake(file) = user_enabled

\* C18: in a sequential run whose releases are each paired with the caller's
\* own earlier acquire, a stored handle is dropped only when no caller whose
\* acquire has returned still has a release outstanding, whether or not an
\* earlier acquire met a failed create().
NoPrematureDrop ==
  [][(guard /\ ~guard' /\ balanced') => TotalHeld' = 0]_vars

====
